---- MODULE Spec2Model ----
(***************************************************************************)
(* Model of mne/viz/decoding.py: the two renderers of a                    *)
(* GeneralizationAcrossTime (gat) result, plot_gat_matrix and              *)
(* plot_gat_diagonal.                                                      *)
(*                                                                         *)
(* Conventions.  Times are integers (multiples of one sampling period) and *)
(* scores are integers in tenths (a score of 0.5 is 5), so that every      *)
(* comparison the code makes on floats is exact here.  Python sequences    *)
(* are 0-based, TLA+ sequences are 1-based: Python index j is j + 1 here.  *)
(* An optional argument is <<>> for None and <<v>> for the value v.        *)
(* matplotlib is seen only through the calls the code makes on it: every   *)
(* call is appended to `calls` with the object it was made on.             *)
(***************************************************************************)
EXTENDS Integers, Sequences, FiniteSets, TLC

VARIABLES
    gat,       \* the results object handed to the renderer
    pc,        \* "ready" | "returned" | "raised"
    func,      \* "none" | "plot_gat_matrix" | "plot_gat_diagonal"
    args,      \* the keyword arguments of the call (<<>> before the call)
    error,     \* "none" or the exception the call raised
    figures,   \* number of figures created by plt.subplots
    calls,     \* matplotlib calls made, in order
    ret,       \* "none" | "fig1" (the created figure) | "fig0" (owner of ax0)
    searches   \* number of argmin nearest-neighbour searches performed

vars == <<gat, pc, func, args, error, figures, calls, ret, searches>>

(***************************************************************************)
(* Bounds of the input space.                                              *)
(***************************************************************************)
MaxN == 2        \* at most MaxN training times
MaxLen == 2      \* at most MaxLen testing times per training time

\* The time points and the training steps the results objects are built from.
Times == {0, 1, 2, 3}
Steps == {1, 2}

None == <<>>
Some(v) == <<v>>

Abs(x) == IF x < 0 THEN -x ELSE x

SetMin(S) == CHOOSE m \in S : \A x \in S : m <= x
SetMax(S) == CHOOSE m \in S : \A x \in S : x <= m

(***************************************************************************)
(* The results objects.  train_times is a uniform grid with its step;      *)
(* test_times_ holds one ascending, non-empty sequence per training time;  *)
(* scores_[i] has one score per testing time of training time i.           *)
(***************************************************************************)
AscSeqs ==
    { s \in UNION { [1 .. n -> Times] : n \in 1 .. MaxLen } :
        \A k \in 1 .. (Len(s) - 1) : s[k] < s[k + 1] }

TrainTimes ==
    { [times_ |-> [k \in 1 .. n |-> start + (k - 1) * step], step |-> step] :
        n \in 1 .. MaxN, start \in Times, step \in Steps }

\* Distinct non-zero scores in every cell; "accuracy" results rise along the
\* matrix, "roc_auc" results fall, so the extrema sit at either end.
ScoreMatrix(tt, scorer) ==
    [i \in 1 .. Len(tt) |->
        [j \in 1 .. Len(tt[i]) |->
            IF scorer = "accuracy_score"
            THEN (i - 1) * MaxLen + j
            ELSE Len(tt) * MaxLen + 1 - ((i - 1) * MaxLen + j)]]

Scorers == {"accuracy_score", "roc_auc_score"}

ResultsOf(n) ==
    { [has_scores_ |-> TRUE,
       scores_     |-> ScoreMatrix(tt, sc),
       train_times |-> tr,
       test_times_ |-> [times_ |-> tt],
       scorer_     |-> sc] :
        tr \in { r \in TrainTimes : /\ Len(r.times_) = n
                                    /\ r.times_[n] \in Times },
        tt \in [1 .. n -> AscSeqs],
        sc \in Scorers }

Results == UNION { ResultsOf(n) : n \in 1 .. MaxN }

\* A results object that was never scored has no scores_ attribute.
Unscored(g) == [g EXCEPT !.has_scores_ = FALSE, !.scores_ = <<>>]

Gats == Results \cup { Unscored(g) : g \in ResultsOf(1) }

(***************************************************************************)
(* The keyword arguments.  The display options are drawn together from     *)
(* two combinations (the defaults, and a title with everything switched    *)
(* off); the arguments that decide values are independent.                 *)
(***************************************************************************)
Display ==
    { [title |-> None,        show |-> TRUE,  colorbar |-> TRUE,
       xlabel |-> TRUE,  ylabel |-> TRUE,  legend |-> TRUE],
      [title |-> Some("GAT"), show |-> FALSE, colorbar |-> FALSE,
       xlabel |-> FALSE, ylabel |-> FALSE, legend |-> FALSE] }

AxArgs == {"None", "ax0"}

MatrixArgs ==
    { [title |-> d.title, vmin |-> lo, vmax |-> hi, tlim |-> tl, ax |-> x,
       cmap |-> "RdBu_r", show |-> d.show, colorbar |-> d.colorbar,
       xlabel |-> d.xlabel, ylabel |-> d.ylabel] :
        d \in Display,
        lo \in {None, Some(0)},
        hi \in {None, Some(10)},
        tl \in {None, Some(<<0, 1, 0, 2>>)},
        x \in AxArgs }

DiagonalArgs ==
    { [title |-> d.title, xmin |-> xl[1], xmax |-> xl[2], ymin |-> yl[1],
       ymax |-> yl[2], ax |-> x, show |-> d.show, color |-> "b",
       xlabel |-> d.xlabel, ylabel |-> d.ylabel, legend |-> d.legend] :
        d \in Display,
        xl \in {<<None, None>>, <<Some(0), None>>, <<Some(0), Some(2)>>},
        yl \in {<<None, None>>, <<Some(0), Some(10)>>},
        x \in AxArgs }

(***************************************************************************)
(* Steps shared by the two renderers.                                      *)
(***************************************************************************)
\* The outcome of a call: how it ended, what it did to matplotlib, and the
\* contents of gat.scores_ when it ended.
Outcome(p, e, nfig, cs, r, ns, sc) ==
    [pc |-> p, error |-> e, figures |-> nfig, calls |-> cs, ret |-> r,
     searches |-> ns, scores_ |-> sc]

Call(obj, method, data) == [on |-> obj, method |-> method, data |-> data]

\* Variant: the guard is missing.
hasattr_no_check(g) == TRUE

\* hasattr(gat, 'scores_')
hasattr_scores_(g) == g.has_scores_

\* if ax is None: fig, ax = plt.subplots(1, 1)
\* fig stays unbound when a surface is supplied.
subplots(ax) ==
    IF ax = "None"
    THEN [fig |-> "fig1", ax |-> "ax1", figures |-> 1]
    ELSE [fig |-> "unbound", ax |-> ax, figures |-> 0]

\* ax.get_figure(): the created axes belong to the created figure, the
\* supplied axes to the caller's figure.
get_figure(ax) == IF ax = "ax1" THEN "fig1" ELSE "fig0"

\* Variant: return fig
return_fig_only(fig, ax) ==
    IF fig = "unbound"
    THEN [error |-> "UnboundLocalError", value |-> "none"]
    ELSE [error |-> "none", value |-> fig]

\* return fig if ax is None else ax.get_figure()
\* ax is the local, which subplots has rebound when it was None; reading a
\* local that was never bound raises UnboundLocalError.
return_value(fig, ax) ==
    IF ax = "None"
    THEN IF fig = "unbound"
         THEN [error |-> "UnboundLocalError", value |-> "none"]
         ELSE [error |-> "none", value |-> fig]
    ELSE [error |-> "none", value |-> get_figure(ax)]

\* The calls common to the end of both renderers: [plt.show()]
show_calls(a) == IF a.show THEN <<Call("plt", "show", <<>>)>> ELSE <<>>

\* All the values of a 2-D array, and of a 1-D array.
Elems2(m) == UNION { { m[i][j] : j \in DOMAIN m[i] } : i \in DOMAIN m }
Elems1(v) == { v[i] : i \in DOMAIN v }

IsRectangular(m) == \A i \in DOMAIN m : Len(m[i]) = Len(m[1])

(***************************************************************************)
(* plot_gat_matrix                                                         *)
(***************************************************************************)
\* Variant: both bounds are defaulted as soon as one is missing.
color_limits_joint(scores, vmin, vmax) ==
    IF vmin = None \/ vmax = None
    THEN [vmin |-> SetMin(Elems2(scores)), vmax |-> SetMax(Elems2(scores))]
    ELSE [vmin |-> vmin[1], vmax |-> vmax[1]]

\* if vmin is None: vmin = np.min(gat.scores_)
\* if vmax is None: vmax = np.max(gat.scores_)
color_limits(scores, vmin, vmax) ==
    [vmin |-> IF vmin = None THEN SetMin(Elems2(scores)) ELSE vmin[1],
     vmax |-> IF vmax = None THEN SetMax(Elems2(scores)) ELSE vmax[1]]

\* Variant: the order the docstring gives, training times first.
tlim_as_documented(g) ==
    LET tt_times == g.train_times.times_
        tn_times == g.test_times_.times_
        last == tn_times[Len(tn_times)]
    IN  <<tt_times[1], tt_times[Len(tt_times)], tn_times[1][1], last[Len(last)]>>

\* tt_times = gat.train_times['times_']; tn_times = gat.test_times_['times_']
\* tlim = [tn_times[0][0], tn_times[-1][-1], tt_times[0], tt_times[-1]]
default_tlim(g) ==
    LET tt_times == g.train_times.times_
        tn_times == g.test_times_.times_
        last == tn_times[Len(tn_times)]
    IN  <<tn_times[1][1], last[Len(last)], tt_times[1], tt_times[Len(tt_times)]>>

matrix_calls(g, a, ax, lim, tlim) ==
    <<Call(ax, "imshow",
           [X |-> g.scores_, interpolation |-> "nearest", origin |-> "lower",
            extent |-> tlim, vmin |-> lim.vmin, vmax |-> lim.vmax,
            cmap |-> a.cmap])>>
    \o (IF a.xlabel THEN <<Call(ax, "set_xlabel", "Testing Time (s)")>> ELSE <<>>)
    \o (IF a.ylabel THEN <<Call(ax, "set_ylabel", "Training Time (s)")>> ELSE <<>>)
    \o (IF a.title # None THEN <<Call(ax, "set_title", a.title[1])>> ELSE <<>>)
    \o <<Call(ax, "axvline", 0), Call(ax, "axhline", 0)>>
    \o <<Call(ax, "set_xlim", SubSeq(tlim, 1, 2)),
         Call(ax, "set_ylim", SubSeq(tlim, 3, 4))>>
    \o (IF a.colorbar THEN <<Call("plt", "colorbar", ax)>> ELSE <<>>)
    \o show_calls(a)

plot_gat_matrix(g, a) ==
    IF ~hasattr_scores_(g)
    THEN Outcome("raised", "RuntimeError", 0, <<>>, "none", 0, g.scores_)
    ELSE
    LET sub == subplots(a.ax) IN
    IF ~g.has_scores_
    THEN \* reading an attribute the object does not have
         Outcome("raised", "AttributeError", sub.figures, <<>>, "none", 0,
                 g.scores_)
    ELSE IF ~IsRectangular(g.scores_)
    THEN \* imshow rejects rows of unequal length before it draws anything
         Outcome("raised", "TypeError", sub.figures, <<>>, "none", 0,
                 g.scores_)
    ELSE
    LET lim  == color_limits(g.scores_, a.vmin, a.vmax)
        tlim == IF a.tlim = None THEN default_tlim(g) ELSE a.tlim[1]
        cs   == matrix_calls(g, a, sub.ax, lim, tlim)
        r    == return_value(sub.fig, sub.ax)
    IN  IF r.error # "none"
        THEN Outcome("raised", r.error, sub.figures, cs, "none", 0, g.scores_)
        ELSE Outcome("returned", "none", sub.figures, cs, r.value, 0,
                     g.scores_)

(***************************************************************************)
(* plot_gat_diagonal                                                       *)
(***************************************************************************)
\* Variant: only the first sequence is looked at.
is_diagonal_first_only(g) == Len(g.test_times_.times_[1]) = 1

\* np.all(np.unique([len(t) for t in gat.test_times_['times_']]) == 1)
is_diagonal(g) ==
    LET unique == { Len(t) : t \in Elems1(g.test_times_.times_) }
    IN  \A n \in unique : n = 1

\* Variant: the last index of the smallest |t[k] - T|.
argmin_abs_last_on_ties(t, T) ==
    CHOOSE j \in DOMAIN t :
        /\ \A k \in DOMAIN t : Abs(t[j] - T) <= Abs(t[k] - T)
        /\ \A k \in (j + 1) .. Len(t) : Abs(t[k] - T) > Abs(t[j] - T)

\* j = np.abs(t - T).argmin(): the first index of the smallest |t[k] - T|
argmin_abs(t, T) ==
    CHOOSE j \in DOMAIN t :
        /\ \A k \in DOMAIN t : Abs(t[j] - T) <= Abs(t[k] - T)
        /\ \A k \in 1 .. (j - 1) : Abs(t[k] - T) > Abs(t[j] - T)

\* if T - t[j] <= gat.train_times['step']
step_check(T, tj, step) == T - tj <= step

\* The arrays the reconstruction touches: g is the array gat.scores_ refers
\* to, z is the array np.zeros creates.  `scores` is bound to one of them.
\* Variant: scores = gat.scores_
new_scores_aliased(g) == "g"

\* scores = np.zeros(len(gat.scores_))
new_scores(g) == "z"

\* scores[i] = v.  A write through the results object's own 2-D array would
\* fill its row i.
store(mem, ref, i, v) ==
    IF ref = "z"
    THEN [mem EXCEPT !.z[i] = v]
    ELSE [mem EXCEPT !.g[i] = [k \in DOMAIN mem.g[i] |-> v]]

\* Variant: only the sequence of training index i is visited.
inner_own_row_only(g, i) == <<g.test_times_.times_[i]>>

\* for t in gat.test_times_['times_']: the sequences the inner loop visits
\* for training index i, in order.
inner_sequences(g, i) == g.test_times_.times_

\* One run of the double loop from (i, k): i over the training times, k over
\* inner_sequences.  mem.err records an IndexError of gat.scores_[i][j].
RECURSIVE nn_loop(_, _, _, _, _)
nn_loop(g, ref, mem, i, k) ==
    IF mem.err # "none" \/ i > Len(g.train_times.times_)
    THEN mem
    ELSE IF k > Len(inner_sequences(g, i))
    THEN nn_loop(g, ref, mem, i + 1, 1)
    ELSE
    LET T == g.train_times.times_[i]
        t == inner_sequences(g, i)[k]
        j == argmin_abs(t, T)
        m1 == [mem EXCEPT !.searches = @ + 1]
    IN  IF step_check(T, t[j], g.train_times.step)
        THEN IF i > Len(m1.g) \/ j > Len(m1.g[i])
             THEN [m1 EXCEPT !.err = "IndexError"]
             ELSE nn_loop(g, ref, store(m1, ref, i, m1.g[i][j]), i, k + 1)
        ELSE nn_loop(g, ref, m1, i, k + 1)

\* Lines 143-155: which array `scores` is, and the memory after the loop.
diagonal_scores(g) ==
    IF is_diagonal(g)
    THEN [ref |-> "g",
          mem |-> [g |-> g.scores_, z |-> <<>>, err |-> "none", searches |-> 0]]
    ELSE LET ref == new_scores(g)
             mem == [g |-> g.scores_,
                     z |-> [i \in 1 .. Len(g.scores_) |-> 0],
                     err |-> "none", searches |-> 0]
         IN  [ref |-> ref, mem |-> nn_loop(g, ref, mem, 1, 1)]

\* 'AUC' if 'roc' in repr(gat.scorer_) else r'%'
score_unit(scorer) == IF scorer = "roc_auc_score" THEN "AUC" ELSE "%"

\* np.min(scores), np.max(scores) over every value of the array plotted
scores_values(d) == IF d.ref = "g" THEN Elems2(d.mem.g) ELSE Elems1(d.mem.z)

\* ax.axhline(0.5, ...): the chance level, in tenths
ChanceLevel == 5

diagonal_calls(g, a, ax, d) ==
    LET ymin == IF a.ymin = None THEN SetMin(scores_values(d)) ELSE a.ymin[1]
        ymax == IF a.ymax = None THEN SetMax(scores_values(d)) ELSE a.ymax[1]
    IN
    <<Call(ax, "plot",
           [x |-> g.train_times.times_,
            y |-> IF d.ref = "g" THEN d.mem.g ELSE d.mem.z,
            y_is |-> IF d.ref = "g" THEN "gat.scores_" ELSE "new array",
            color |-> a.color, label |-> "Classif. score"]),
      Call(ax, "axhline", ChanceLevel)>>
    \o (IF a.title # None THEN <<Call(ax, "set_title", a.title[1])>> ELSE <<>>)
    \o <<Call(ax, "set_ylim", <<ymin, ymax>>)>>
    \o (IF a.xmin # None /\ a.xmax # None
        THEN <<Call(ax, "set_xlim", <<a.xmin[1], a.xmax[1]>>)>> ELSE <<>>)
    \o (IF a.xlabel THEN <<Call(ax, "set_xlabel", "Time (s)")>> ELSE <<>>)
    \o (IF a.ylabel
        THEN <<Call(ax, "set_ylabel", score_unit(g.scorer_))>> ELSE <<>>)
    \o (IF a.legend THEN <<Call(ax, "legend", "best")>> ELSE <<>>)
    \o show_calls(a)

plot_gat_diagonal(g, a) ==
    IF ~hasattr_scores_(g)
    THEN Outcome("raised", "RuntimeError", 0, <<>>, "none", 0, g.scores_)
    ELSE
    LET sub == subplots(a.ax) IN
    IF ~g.has_scores_
    THEN \* reading an attribute the object does not have
         Outcome("raised", "AttributeError", sub.figures, <<>>, "none", 0,
                 g.scores_)
    ELSE
    LET d == diagonal_scores(g) IN
    IF d.mem.err # "none"
    THEN Outcome("raised", d.mem.err, sub.figures, <<>>, "none",
                 d.mem.searches, d.mem.g)
    ELSE
    LET cs == diagonal_calls(g, a, sub.ax, d)
        r  == return_value(sub.fig, sub.ax)
    IN  IF r.error # "none"
        THEN Outcome("raised", r.error, sub.figures, cs, "none",
                     d.mem.searches, d.mem.g)
        ELSE Outcome("returned", "none", sub.figures, cs, r.value,
                     d.mem.searches, d.mem.g)

(***************************************************************************)
(* The state machine: a results object is given, one renderer is called    *)
(* on it, and the call returns or raises.                                  *)
(***************************************************************************)
Init ==
    /\ gat \in Gats
    /\ pc = "ready"
    /\ func = "none"
    /\ args = <<>>
    /\ error = "none"
    /\ figures = 0
    /\ calls = <<>>
    /\ ret = "none"
    /\ searches = 0

Finish(f, a, o) ==
    /\ func' = f
    /\ args' = a
    /\ pc' = o.pc
    /\ error' = o.error
    /\ figures' = o.figures
    /\ calls' = o.calls
    /\ ret' = o.ret
    /\ searches' = o.searches
    /\ gat' = [gat EXCEPT !.scores_ = o.scores_]

PlotGatMatrix ==
    /\ pc = "ready"
    /\ \E a \in MatrixArgs :
          \E o \in {plot_gat_matrix(gat, a)} : Finish("plot_gat_matrix", a, o)

PlotGatDiagonal ==
    /\ pc = "ready"
    /\ \E a \in DiagonalArgs :
          \E o \in {plot_gat_diagonal(gat, a)} : Finish("plot_gat_diagonal", a, o)

Next == PlotGatMatrix \/ PlotGatDiagonal

Spec == Init /\ [][Next]_vars

(***************************************************************************)
(* Vocabulary of the properties.                                           *)
(***************************************************************************)
Matrix == "plot_gat_matrix"
Diagonal == "plot_gat_diagonal"

TrainT == gat.train_times.times_
TestT == gat.test_times_.times_

\* The surface the call draws on: the supplied one, or the one it created.
Surface == IF args.ax = "None" THEN "ax1" ELSE "ax0"

CallsNamed(m) == { k \in DOMAIN calls : calls[k].method = m }

\* Every testing-time sequence has exactly one element.
AllLengthOne == \A k \in DOMAIN TestT : Len(TestT[k]) = 1

\* The call reached the plot of the reconstructed (nearest-neighbour) vector.
Reconstructed == pc = "returned" /\ func = Diagonal /\ ~AllLengthOne

\* The vector handed to ax.plot.
Plotted == calls[1].data.y

\* Nearest neighbour of T in t: the smallest index at the smallest distance.
Dist(t, T) == SetMin({ Abs(t[k] - T) : k \in DOMAIN t })
Nearest(t, T) == SetMin({ k \in DOMAIN t : Abs(t[k] - T) = Dist(t, T) })

\* t holds a testing time within one training step of T.
WithinStep(t, T) == \E k \in DOMAIN t : Abs(t[k] - T) <= gat.train_times.step

\* The plotted entry at i is the score of row i at the index nearest to T
\* in t.
PlotsNearest(i, t) ==
    /\ Nearest(t, TrainT[i]) \in DOMAIN gat.scores_[i]
    /\ Plotted[i] = gat.scores_[i][Nearest(t, TrainT[i])]

\* The sequences whose nearest element passes the check the code makes.
Passing(T) ==
    { k \in DOMAIN TestT :
        T - TestT[k][Nearest(TestT[k], T)] <= gat.train_times.step }

(***************************************************************************)
(* Properties.                                                             *)
(***************************************************************************)

\* C1: a call of either renderer on a results object without scores_ raises
\* the "not computed" RuntimeError, and nothing was drawn before it: no
\* figure or axes created, no call on any drawing surface, no display.
C1_UnscoredRaisesBeforeDrawing ==
    (pc # "ready" /\ ~gat.has_scores_) =>
        /\ pc = "raised"
        /\ error = "RuntimeError"
        /\ figures = 0
        /\ calls = <<>>
        /\ ret = "none"

C1_Witness ==
    /\ pc = "raised"
    /\ ~gat.has_scores_
    /\ func = Diagonal
    /\ args.ax = "ax0"
    /\ args.show

\* C2: in the reconstruction of plot_gat_diagonal a score is accepted only
\* when |T - t[j]| <= step, so a training time that has no testing time
\* within one step in any sequence is plotted as 0.
C2_NoMatchWithinStepGivesZero ==
    Reconstructed =>
        \A i \in DOMAIN TrainT :
            (\A k \in DOMAIN TestT : ~WithinStep(TestT[k], TrainT[i]))
                => Plotted[i] = 0

C4_IdentityIffAllLengthOne ==
    (pc # "ready" /\ func = Diagonal /\ gat.has_scores_) =>
        /\ AllLengthOne <=> searches = 0
        /\ pc = "returned" =>
              /\ calls[1].method = "plot"
              /\ AllLengthOne =>
                    /\ calls[1].data.y_is = "gat.scores_"
                    /\ Plotted = gat.scores_
              /\ ~AllLengthOne => calls[1].data.y_is = "new array"

C4_Witness ==
    /\ pc = "returned"
    /\ func = Diagonal
    /\ Len(TestT) = 2
    /\ AllLengthOne
    /\ TestT[1] # TestT[2]
    /\ Plotted = gat.scores_
    /\ searches = 0

\* The extents of a matrix call without tlim, as the code orders them.
TestThenTrain ==
    <<TestT[1][1], TestT[Len(TestT)][Len(TestT[Len(TestT)])],
      TrainT[1], TrainT[Len(TrainT)]>>

\* The extents of a matrix call without tlim, as the docstring orders them.
TrainThenTest ==
    <<TrainT[1], TrainT[Len(TrainT)],
      TestT[1][1], TestT[Len(TestT)][Len(TestT[Len(TestT)])]>>

\* The extent of the image and the two axis limits of a matrix call are e.
ExtentsAre(e) ==
    /\ calls[1].method = "imshow"
    /\ calls[1].data.extent = e
    /\ \E k \in CallsNamed("set_xlim") : calls[k].data = <<e[1], e[2]>>
    /\ \E k \in CallsNamed("set_ylim") : calls[k].data = <<e[3], e[4]>>

C6_ExtentsAsDocumented ==
    (pc = "returned" /\ func = Matrix /\ args.tlim = None) =>
        calls[1].data.extent = TrainThenTest

\* The smallest and the largest score of the matrix.
MinScore == SetMin(UNION { { gat.scores_[i][j] : j \in DOMAIN gat.scores_[i] } :
                           i \in DOMAIN gat.scores_ })
MaxScore == SetMax(UNION { { gat.scores_[i][j] : j \in DOMAIN gat.scores_[i] } :
                           i \in DOMAIN gat.scores_ })

\* C7: the colour bounds plot_gat_matrix passes to imshow default, each on
\* its own, to the minimum and the maximum of the score matrix; a supplied
\* bound is passed unchanged whether or not the other one is defaulted.
C7_ColourBoundsDefaultIndependently ==
    (pc = "returned" /\ func = Matrix) =>
        /\ calls[1].method = "imshow"
        /\ calls[1].data.vmin =
              (IF args.vmin = None THEN MinScore ELSE args.vmin[1])
        /\ calls[1].data.vmax =
              (IF args.vmax = None THEN MaxScore ELSE args.vmax[1])

C7_Witness ==
    /\ pc = "returned"
    /\ func = Matrix
    /\ args.vmin = None
    /\ args.vmax # None
    /\ calls[1].data.vmin = MinScore
    /\ calls[1].data.vmax = args.vmax[1]
    /\ MinScore # gat.scores_[1][1]

\* C8: a call that succeeds returns a figure: without a supplied surface
\* exactly one figure is created and returned; with one, no figure is
\* created, every drawing call goes to the supplied surface and the figure
\* owning it is returned.  No call fails on the unbound local fig.
C8_ReturnsTheFigureDrawnOn ==
    /\ error # "UnboundLocalError"
    /\ pc = "returned" =>
          /\ calls # <<>>
          /\ \A k \in DOMAIN calls :
                \/ calls[k].on = Surface
                \/ calls[k].on = "plt" /\ calls[k].method = "show"
                \/ /\ calls[k].on = "plt"
                   /\ calls[k].method = "colorbar"
                   /\ calls[k].data = Surface
          /\ args.ax = "None" => (figures = 1 /\ ret = "fig1")
          /\ args.ax = "ax0" => (figures = 0 /\ ret = "fig0")

C8_Witness ==
    /\ pc = "returned"
    /\ func = Matrix
    /\ args.ax = "ax0"
    /\ args.colorbar
    /\ ret = "fig0"
    /\ figures = 0

\* C9: no call of either renderer changes the results object (scores_,
\* train_times, test_times_, scorer_), whether it raises, takes the identity
\* path or reconstructs: the reconstructed vector is a new array.  The
\* caller's surface is touched only when it was supplied.
C9_ResultsObjectUnchanged ==
    [][ /\ gat' = gat
        /\ (pc' = "returned" /\ func' = Diagonal
            /\ \E k \in DOMAIN gat.test_times_.times_ :
                  Len(gat.test_times_.times_[k]) # 1)
              => calls'[1].data.y_is = "new array"
        /\ args'.ax = "None" =>
              \A k \in DOMAIN calls' : calls'[k].on # "ax0" ]_vars

C9_Witness ==
    /\ Reconstructed
    /\ args.ax = "ax0"
    /\ \E i \in DOMAIN Plotted : Plotted[i] # 0

====
